---- MODULE Spec2Model ----
(***************************************************************************)
(* Model of the transfer queue of gc-unified-lib (class MessageQueue) on   *)
(* the Node.js event loop.                                                 *)
(*                                                                         *)
(* Strings are sequences of lexemes ("sendir", ",", "1:1", ...).  Every    *)
(* string of the model is built from the same lexemes, so the prefix and   *)
(* split operations below agree with the character operations of the code. *)
(*                                                                         *)
(* One step of the model is one synchronous run of code: a call by the     *)
(* application (send, and the pause and clear of close), a                 *)
(* process.nextTick callback, a promise reaction, or a callback of the     *)
(* event loop (a timer, the socket's data event that ends in               *)
(* handleResponse, the open event that ends in resume).  The callbacks of  *)
(* the event loop run only when no nextTick callback and no promise        *)
(* reaction is pending, as the event loop orders them; the application     *)
(* may call from anywhere.                                                 *)
(***************************************************************************)
EXTENDS Integers, Sequences, FiniteSets, TLC

VARIABLES
    msgId,        \* MessageQueue.#msgId
    list,         \* MessageQueue.#list, as the sequence of the items' ids
    active,       \* MessageQueue.#active
    paused,       \* MessageQueue.#paused
    items,        \* every MsgItem ever constructed, by id, with its promises and timers
    ticks,        \* number of pending process.nextTick(() => this.#run()) callbacks
    jobs,         \* ids whose settled msgTask has a pending promise reaction
    retryTimers,  \* ids of the requests with a pending busy re-send timer
    now,          \* Date.now() at the latest push, in logical milliseconds
    options,      \* UnifiedClient.#options, the part send passes on
    buffer,       \* UnifiedClient.#response, the bytes received and not yet delivered
    client        \* the connection of UnifiedClient: supervisor state, socket and timers

vars ==
    <<msgId, list, active, paused, items, ticks, jobs, retryTimers, now, options, buffer,
      client>>

(***************************************************************************)
(* Bounds of the model.                                                    *)
(***************************************************************************)
MaxMsgs == 2
MaxRetryTimers == 1
MaxBuffer == 6
MaxChunk == 2
MaxReconnections == 2

Ids == 1..MaxMsgs

(***************************************************************************)
(* Strings.                                                                *)
(***************************************************************************)
startsWith(s, p) == Len(p) <= Len(s) /\ SubSeq(s, 1, Len(p)) = p

endsWith(s, p) == Len(p) <= Len(s) /\ SubSeq(s, Len(s) - Len(p) + 1, Len(s)) = p

\* String.prototype.trim: "CR" and "LF" are the whitespace lexemes of the model.
WhiteSpace == {"CR", "LF"}

RECURSIVE trimEnd(_)
trimEnd(s) ==
    IF s # <<>> /\ s[Len(s)] \in WhiteSpace THEN trimEnd(SubSeq(s, 1, Len(s) - 1)) ELSE s

RECURSIVE trimStart(_)
trimStart(s) == IF s # <<>> /\ Head(s) \in WhiteSpace THEN trimStart(Tail(s)) ELSE s

trim(s) == trimEnd(trimStart(s))

\* String.prototype.split(","): the parts between the commas.
RECURSIVE splitAll(_)
splitAll(s) ==
    IF \A i \in 1..Len(s) : s[i] # ","
    THEN <<s>>
    ELSE LET i == CHOOSE k \in 1..Len(s) : s[k] = "," /\ \A j \in 1..(k - 1) : s[j] # ","
         IN  <<SubSeq(s, 1, i - 1)>> \o splitAll(SubSeq(s, i + 1, Len(s)))

\* String.prototype.split(",", limit): at most limit parts, the rest is dropped.
split(s, limit) ==
    LET all == splitAll(s)
    IN  IF Len(all) <= limit THEN all ELSE SubSeq(all, 1, limit)

\* Array.prototype.join(",")
RECURSIVE join(_)
join(parts) ==
    IF parts = <<>> THEN <<>>
    ELSE IF Len(parts) = 1 THEN parts[1]
    ELSE parts[1] \o <<",">> \o join(Tail(parts))

(***************************************************************************)
(* models.js: request table, expected responses, error and version lines.  *)
(***************************************************************************)
RequestNames ==
    {"getversion", "getdevices", "get_NET", "set_NET", "get_IR", "set_IR", "sendir", "stopir",
     "get_IRL", "stop_IRL", "receiveIR", "get_SERIAL", "set_SERIAL", "get_RELAY", "set_RELAY",
     "getstate", "setstate"}

\* Requests[name]; "undefined" stands for the value a missing key yields.
Requests(part) ==
    IF Len(part) # 1 \/ part[1] \notin RequestNames THEN <<"undefined">>
    ELSE CASE part[1] = "getversion" -> <<"version">>
           [] part[1] = "getdevices" -> <<"device">>
           [] part[1] \in {"get_NET", "set_NET"} -> <<"NET">>
           [] part[1] \in {"get_IR", "set_IR"} -> <<"IR">>
           [] part[1] = "sendir" -> <<"completeir">>
           [] part[1] = "stopir" -> <<"stopir">>
           [] part[1] = "get_IRL" -> <<"IR Learner Enabled">>
           [] part[1] = "stop_IRL" -> <<"IR Learner Disabled">>
           [] part[1] = "receiveIR" -> <<"receiveIR">>
           [] part[1] \in {"get_SERIAL", "set_SERIAL"} -> <<"SERIAL">>
           [] part[1] \in {"get_RELAY", "set_RELAY"} -> <<"RELAY">>
           [] part[1] \in {"getstate", "setstate"} -> <<"state">>

\* The expected response prefix of a request message.  An empty part is falsy.
expectedResponse(message) ==
    LET parts == split(trim(message), 3)
        msg == Requests(parts[1])
    IN  IF parts[1] = <<"sendir">> /\ Len(parts) >= 3 /\ parts[3] # <<>>
        THEN msg \o <<",">> \o parts[2] \o <<",">> \o parts[3]
        ELSE IF Len(parts) >= 2 /\ parts[2] # <<>>
        THEN msg \o <<",">> \o parts[2]
        ELSE msg

\* checkErrorResponse throws for the three families of device error lines.
isErrorResponse(response) ==
    response # <<>> /\ Head(response) \in {"ERR_", "ERR ", "unknowncommand"}

\* The keys of the Models map, as the lexemes that follow "710-" or "version,".
ITachFlexModels ==
    {"1005-", "1009-", "1008-", "1001-", "1007-", "1010-", "2000-", "3000-",
     "4001-", "4002-", "4003-", "4004-"}

GC100Models == {"3.0-6", "3.0-12", "3.0-18", "3.1-6", "3.1-12", "3.1-18", "3.2-6", "3.2-12", "3.2-18"}

\* modelFromVersion(version).length !== 0
hasModel(version) ==
    \/ /\ Len(version) >= 2
       /\ version[1] = "710-"
       /\ version[2] \in ITachFlexModels
    \/ /\ Len(version) >= 3
       /\ version[1] = "version"
       /\ version[2] = ","
       /\ LET parts == splitAll(version)
          IN  Len(parts[Len(parts)]) = 1 /\ parts[Len(parts)][1] \in GC100Models

(***************************************************************************)
(* Promises.  A promise is pending, fulfilled with a value or rejected     *)
(* with a reason; class tells what kind of value it is.  msgTask is "none" *)
(* while the item has no msgResolve/msgReject (they are null).             *)
(***************************************************************************)
NoPromise == [state |-> "none", class |-> "none", val |-> <<>>]
Pending == [state |-> "pending", class |-> "none", val |-> <<>>]
Fulfilled(v) == [state |-> "fulfilled", class |-> "string", val |-> v]
FulfilledUndefined == [state |-> "fulfilled", class |-> "undefined", val |-> <<>>]
RejectedString(v) == [state |-> "rejected", class |-> "string", val |-> v]
ResponseError(code) == [state |-> "rejected", class |-> "ResponseError", val |-> <<code>>]
TypeError == [state |-> "rejected", class |-> "TypeError", val |-> <<>>]
\* a settled msgTask whose reactions have run: nothing reads its value any more
Reacted == [state |-> "reacted", class |-> "none", val |-> <<>>]

Settled(p) == p.state \in {"fulfilled", "rejected"}

(***************************************************************************)
(* MsgItem.  promise is the promise push returned; locked tells that it    *)
(* was resolved with the wrapper promise and now follows it.  queueTimer   *)
(* and sendTimer tell whether the timer is armed.                          *)
(***************************************************************************)
NoItem ==
    [message |-> <<>>, expected |-> <<>>, sendTimeout |-> 0, timestamp |-> 0,
     processed |-> FALSE, queueTimer |-> FALSE, sendTimer |-> FALSE,
     msgTask |-> NoPromise, promise |-> NoPromise, locked |-> FALSE, priority |-> FALSE]

\* new MsgItem(...), with its queue timer armed; priority records how push inserted it.
MsgItem(message, sendTimeout, timestamp, priority) ==
    [message |-> message, expected |-> expectedResponse(message), sendTimeout |-> sendTimeout,
     timestamp |-> timestamp, processed |-> FALSE, queueTimer |-> TRUE, sendTimer |-> FALSE,
     msgTask |-> NoPromise, promise |-> Pending, locked |-> FALSE, priority |-> priority]

(***************************************************************************)
(* The state of the queue as one record, so that the handlers compose.     *)
(* wrote is the call of taskFunc a handler made, ret the value it returned, *)
(* resolved the requests the stopir loop of handleNormalResponse resolved, *)
(* in the order of the calls, delay the delay of the re-send timer the     *)
(* busy branch armed, pushed the arguments push was called with; they      *)
(* belong to the call and are not kept in the state.                       *)
(***************************************************************************)
NoWrite == [id |-> 0, by |-> "none"]
NoPush == [request |-> <<"none">>, sendTimeout |-> 0, queueTimeout |-> 0, priority |-> FALSE]

St ==
    [msgId |-> msgId, list |-> list, active |-> active, paused |-> paused, items |-> items,
     ticks |-> ticks, jobs |-> jobs, retryTimers |-> retryTimers, now |-> now,
     wrote |-> NoWrite, ret |-> "none", resolved |-> <<>>, delay |-> 0, pushed |-> NoPush]

SetFields(s) ==
    /\ msgId' = s.msgId
    /\ list' = s.list
    /\ active' = s.active
    /\ paused' = s.paused
    /\ items' = s.items
    /\ ticks' = s.ticks
    /\ jobs' = s.jobs
    /\ retryTimers' = s.retryTimers
    /\ now' = s.now

SetQueue(s) == SetFields(s) /\ UNCHANGED <<options, client>>

Set(s) == SetQueue(s) /\ UNCHANGED buffer

\* resolve(value) / reject(reason) of the promise push returned: no effect once the promise
\* is settled or follows the wrapper promise.
settlePromise(s, id, p) ==
    IF s.items[id].promise.state = "pending" /\ ~s.items[id].locked
    THEN [s EXCEPT !.items[id].promise = p]
    ELSE s

\* msgResolve(value) / msgReject(reason): settles msgTask once; its reactions run later.
settleMsgTask(s, id, p) ==
    IF s.items[id].msgTask.state = "pending"
    THEN [s EXCEPT !.items[id].msgTask = p, !.jobs = @ \cup {id}]
    ELSE s

\* if (item.msgResolve) item.msgResolve(v) else item.resolve(v), and the same for reject.
settleItem(s, id, p) ==
    IF s.items[id].msgTask.state # "none"
    THEN settleMsgTask(s, id, p)
    ELSE settlePromise(s, id, p)

(***************************************************************************)
(* Private helpers of MessageQueue.                                        *)
(***************************************************************************)
\* #remove(index), the list without the item at a 1-based index
remove(l, index) ==
    IF index > Len(l) THEN l
    ELSE SubSeq(l, 1, index - 1) \o SubSeq(l, index + 1, Len(l))

\* #removeItemByMsgId(id), the list after the call
removeItemByMsgId(l, id) ==
    IF \E i \in 1..Len(l) : l[i] = id
    THEN remove(l, CHOOSE i \in 1..Len(l) : l[i] = id /\ \A j \in 1..(i - 1) : l[j] # id)
    ELSE l

unprocessedItemCount(s) == Cardinality({i \in 1..Len(s.list) : ~s.items[s.list[i]].processed})

\* #nextUnprocessedItem(), 0 for undefined
nextUnprocessedItem(s) ==
    IF \E i \in 1..Len(s.list) : ~s.items[s.list[i]].processed
    THEN s.list[CHOOSE i \in 1..Len(s.list) :
                    /\ ~s.items[s.list[i]].processed
                    /\ \A j \in 1..(i - 1) : s.items[s.list[j]].processed]
    ELSE 0

\* #filterRequests(prefix), as the ids in list order
RECURSIVE filterIds(_, _, _)
filterIds(its, l, prefix) ==
    IF l = <<>> THEN <<>>
    ELSE (IF startsWith(its[Head(l)].message, prefix) THEN <<Head(l)>> ELSE <<>>)
         \o filterIds(its, Tail(l), prefix)

filterRequests(s, prefix) == filterIds(s.items, s.list, prefix)

\* #removeOlderRequests(request), the list after the call
RECURSIVE keepNotOlder(_, _, _, _)
keepNotOlder(its, l, prefix, timestamp) ==
    IF l = <<>> THEN <<>>
    ELSE (IF startsWith(its[Head(l)].message, prefix) /\ its[Head(l)].timestamp < timestamp
          THEN <<>> ELSE <<Head(l)>>)
         \o keepNotOlder(its, Tail(l), prefix, timestamp)

removeOlderRequests(s, id) ==
    IF id = 0 \/ s.list = <<>> THEN s
    ELSE LET prefix == join(split(s.items[id].message, 2))
         IN  [s EXCEPT !.list = keepNotOlder(s.items, s.list, prefix, s.items[id].timestamp)]

(***************************************************************************)
(* The dispatcher.                                                         *)
(***************************************************************************)
\* The body of #run after the guard, for the item q it picked: the try and the finally.
dispatch(s, q) ==
    LET s1 == [s EXCEPT !.active = @ + 1,
                        !.items[q].processed = TRUE,
                        !.items[q].queueTimer = FALSE]
        s2 == IF s1.items[q].sendTimeout # 0
              THEN [s1 EXCEPT !.items[q].msgTask = Pending,
                              !.items[q].sendTimer = TRUE,
                              !.items[q].locked = @ \/ s1.items[q].promise.state = "pending",
                              !.wrote = [id |-> q, by |-> "run"]]
              ELSE settlePromise([s1 EXCEPT !.wrote = [id |-> q, by |-> "run"]],
                                 q, FulfilledUndefined)
    IN  [s2 EXCEPT !.active = @ - 1, !.ticks = @ + 1]

\* #run()
run(s) ==
    IF s.paused \/ s.active >= 1 \/ unprocessedItemCount(s) = 0
    THEN s
    ELSE IF nextUnprocessedItem(s) = 0 THEN s
    ELSE dispatch(s, nextUnprocessedItem(s))

\* A wrapper that forgets to remove the item.
wrapperKeepsItem(s, id) ==
    LET it == s.items[id]
    IN  [s EXCEPT !.jobs = @ \ {id},
                  !.items[id].msgTask = Reacted,
                  !.items[id].sendTimer = IF it.msgTask.state = "fulfilled" THEN FALSE ELSE @,
                  !.items[id].promise =
                      IF it.locked /\ @.state = "pending" THEN it.msgTask ELSE @]

\* The reactions to a settled msgTask: the then-callback of timeoutPromise clears the send
\* timer of a fulfilled task, the wrapper removes the item, the client promise follows.
removeQueueItemWrapper(s, id) ==
    LET it == s.items[id]
    IN  [s EXCEPT !.jobs = @ \ {id},
                  !.list = removeItemByMsgId(@, id),
                  !.items[id].msgTask = Reacted,
                  !.items[id].sendTimer = IF it.msgTask.state = "fulfilled" THEN FALSE ELSE @,
                  !.items[id].promise =
                      IF it.locked /\ @.state = "pending" THEN it.msgTask ELSE @]

(***************************************************************************)
(* The public operations.                                                  *)
(***************************************************************************)
\* Where push puts the new item.
insert(l, id, priority) == IF priority THEN <<id>> \o l ELSE Append(l, id)

\* The first item of the list with the same message as the request, 0 if there is none.
sameMessage(s, request) ==
    IF \E i \in 1..Len(s.list) : s.items[s.list[i]].message = request
    THEN s.list[CHOOSE i \in 1..Len(s.list) :
                    /\ s.items[s.list[i]].message = request
                    /\ \A j \in 1..(i - 1) : s.items[s.list[j]].message # request]
    ELSE 0

\* push(request, {sendTimeout, queueTimeout, priority}) at time Date.now() = timestamp; the
\* queue timeout is the delay of the queue timer and
\* is the time at which the queue timer fires.  Calling the null msgResolve of an unsent
\* item throws a TypeError, which rejects the promise of this push before an item is made.
push(s, request, sendTimeout, queueTimeout, priority, timestamp) ==
    LET id == s.msgId + 1
        s1 == [s EXCEPT !.msgId = id, !.now = timestamp,
                        !.pushed = [request |-> request, sendTimeout |-> sendTimeout,
                                    queueTimeout |-> queueTimeout, priority |-> priority]]
        dup == IF startsWith(request, <<"sendir">>) THEN sameMessage(s1, request) ELSE 0
        s2 == IF dup # 0 THEN settleMsgTask(s1, dup, Fulfilled(<<"repeatir">>)) ELSE s1
        s3 == [s2 EXCEPT !.items[id] = MsgItem(request, sendTimeout, timestamp, priority),
                         !.list = insert(@, id, priority)]
    IN  IF dup # 0 /\ s1.items[dup].msgTask.state = "none"
        THEN [s1 EXCEPT !.items[id] = [NoItem EXCEPT !.message = request, !.promise = TypeError]]
        ELSE run(s3)

\* clear()
RECURSIVE rejectAll(_, _)
rejectAll(s, l) ==
    IF l = <<>> THEN s
    ELSE rejectAll(settleItem(s, Head(l), ResponseError("QUEUE_CLEARED")), Tail(l))

\* A clear that only empties the list.
clearSilently(s) == [s EXCEPT !.list = <<>>]

clear(s) == [rejectAll(s, s.list) EXCEPT !.list = <<>>]

\* A pause that does not pause.
pauseNot(s) == s

\* pause()
pause(s) == [s EXCEPT !.paused = TRUE]

\* resume()
resume(s) == IF ~s.paused THEN s ELSE [s EXCEPT !.paused = FALSE, !.ticks = @ + 1]

(***************************************************************************)
(* Inbound lines.                                                          *)
(***************************************************************************)
\* A search that takes the last item expecting the response instead of the first.
lastExpected(s, response) ==
    IF \E i \in 1..Len(s.list) : startsWith(response, s.items[s.list[i]].expected)
    THEN CHOOSE i \in 1..Len(s.list) :
             /\ startsWith(response, s.items[s.list[i]].expected)
             /\ \A j \in (i + 1)..Len(s.list) : ~startsWith(response, s.items[s.list[j]].expected)
    ELSE 0

\* A search that takes the first item whatever it expects.
firstAny(s, response) == IF s.list # <<>> THEN 1 ELSE 0

\* #resolve(response): the id of the request found (0 for undefined) and the state after
\* the request and the older requests of its kind were removed.
firstExpected(s, response) ==
    IF \E i \in 1..Len(s.list) : startsWith(response, s.items[s.list[i]].expected)
    THEN CHOOSE i \in 1..Len(s.list) :
             /\ startsWith(response, s.items[s.list[i]].expected)
             /\ \A j \in 1..(i - 1) : ~startsWith(response, s.items[s.list[j]].expected)
    ELSE 0

firstGetversion(s) ==
    IF \E i \in 1..Len(s.list) : startsWith(s.items[s.list[i]].message, <<"getversion">>)
    THEN CHOOSE i \in 1..Len(s.list) :
             /\ startsWith(s.items[s.list[i]].message, <<"getversion">>)
             /\ \A j \in 1..(i - 1) : ~startsWith(s.items[s.list[j]].message, <<"getversion">>)
    ELSE 0

\* A search by expected prefix alone, without the version fallback.
resolveByPrefix(s, response) == firstExpected(s, response)

resolveIndex(s, response) ==
    IF firstExpected(s, response) # 0 THEN firstExpected(s, response)
    ELSE IF hasModel(response) THEN firstGetversion(s)
    ELSE 0

resolve(s, response) ==
    LET i == resolveIndex(s, response)
    IN  IF i = 0 THEN [request |-> 0, s |-> s]
        ELSE [request |-> s.list[i],
              s |-> removeOlderRequests([s EXCEPT !.list = remove(@, i)], s.list[i])]

\* handleNormalResponse(response)
RECURSIVE resolveAll(_, _, _)
resolveAll(s, l, response) ==
    IF l = <<>> THEN s
    ELSE resolveAll([settleItem(s, Head(l), Fulfilled(response))
                         EXCEPT !.resolved = Append(@, Head(l))],
                    Tail(l), response)

handleNormalResponse(s, response) ==
    LET s1 == IF startsWith(response, <<"stopir">>)
              THEN resolveAll(s, filterRequests(s, <<"sendir">> \o Tail(response)), response)
              ELSE s
        r == resolve(s1, response)
    IN  IF r.request = 0 THEN [s1 EXCEPT !.ret = "false"]
        ELSE [settleItem(r.s, r.request, Fulfilled(response)) EXCEPT !.ret = "true"]

\* #resolveError and handleErrorResponse(response, err): the oldest item is shifted off the
\* list; msgReject, if the item has one, is called with the response line.
handleErrorResponse(s, response) ==
    IF s.list = <<>> THEN [s EXCEPT !.ret = "false"]
    ELSE LET request == Head(s.list)
             s1 == [s EXCEPT !.list = Tail(@)]
         IN  [(IF s1.items[request].msgTask.state # "none"
               THEN settleMsgTask(s1, request, RejectedString(response))
               ELSE s1) EXCEPT !.ret = "true"]

\* getBusyIrRequest(response): the id of the request of the Message returned, 0 for undefined
getBusyIrRequest(s, response) ==
    LET parts == splitAll(response)
    IN  IF parts[1] # <<"busyIR">> /\ parts[1] # <<"busyir">> THEN 0
        ELSE IF Len(parts) = 3
        THEN LET sameAddress == <<"sendir", ",">> \o parts[2]
                 activeRequest == sameAddress \o <<",">> \o parts[3]
                 requests == filterRequests(s, sameAddress)
                 other == {i \in 1..Len(requests) :
                              ~startsWith(s.items[requests[i]].message, activeRequest)}
             IN  IF other = {} THEN 0
                 ELSE requests[CHOOSE i \in other : \A j \in other : i <= j]
        ELSE LET requests == filterRequests(s, <<"sendir">>)
             IN  IF Len(requests) > 1 THEN requests[2] ELSE 0

\* options.retryInterval and options.sendTimeout of the queue: the defaults
retryInterval == 99
sendTimeoutOption == 500

\* The retry budget: TRUE when the re-send is abandoned.
budgetExhausted(elapsed) == (elapsed + retryInterval) + 100 > sendTimeoutOption

\* handleResponse(response); elapsed is Date.now() - request.timestamp of the busy request
handleResponse(s, response, elapsed) ==
    IF isErrorResponse(response) THEN handleErrorResponse(s, response)
    ELSE IF startsWith(response, <<"busyIR">>) \/ startsWith(response, <<"busyir">>)
    THEN LET request == getBusyIrRequest(s, response)
         IN  IF request = 0 THEN [s EXCEPT !.ret = "false"]
             ELSE IF budgetExhausted(elapsed)
             THEN [settleItem(s, request, ResponseError("BUSY_IR")) EXCEPT !.ret = "true"]
             ELSE [s EXCEPT !.retryTimers = Append(@, request), !.ret = "true",
                            !.delay = retryInterval]
    ELSE handleNormalResponse(s, response)

(***************************************************************************)
(* Inputs.                                                                 *)
(***************************************************************************)
\* what the application passes to send
GetState == <<"getstate", ",", "1:1">>
SendIr2 == <<"sendir", ",", "1:1", ",", "2", ",", "38000">>
StopIr == <<"stopir", ",", "1:1">>

DataPool == {GetState, SendIr2, StopIr}

\* the lines of the device, as the framer delivers them
State1 == <<"state", ",", "1:1", ",", "1">>
CompleteIr2 == <<"completeir", ",", "1:1", ",", "2">>
StopIrAck == <<"stopir", ",", "1:1">>
BusyIr1 == <<"busyIR", ",", "1:1", ",", "1">>
ErrLine == <<"ERR_", "1:1", ",", "014">>

ResponsePool == {State1, CompleteIr2, StopIrAck, BusyIr1, ErrLine}

isBusy(response) == startsWith(response, <<"busyIR">>) \/ startsWith(response, <<"busyir">>)

\* options.sendTimeout of the client: none, or the default
SendTimeouts == {0, 500}

\* options.queueTimeout of the client: the default
QueueTimeouts == {200}

\* Date.now() - request.timestamp when a busy line arrives: both sides of the budget
ElapsedPool == {0, 301, 302}

\* The connection of a client after construction: the supervisor is stopped, the socket is
\* not connected and no timer is armed.
NoClient ==
    [state |-> "stopped", socket |-> "idle", connectionTimer |-> FALSE, immediate |-> FALSE,
     reconnections |-> 0, handle |-> FALSE]

(***************************************************************************)
(* The state after construction.                                           *)
(***************************************************************************)
Init ==
    /\ msgId = 0
    /\ list = <<>>
    /\ active = 0
    /\ paused = FALSE
    /\ items = [id \in Ids |-> NoItem]
    /\ ticks = 0
    /\ jobs = {}
    /\ retryTimers = <<>>
    /\ now = 0
    /\ options \in [sendTimeout : SendTimeouts, queueTimeout : QueueTimeouts]
    /\ buffer = <<>>
    /\ client = NoClient

\* No nextTick callback and no promise reaction is pending: the event loop goes on to timers.
Drained == ticks = 0 /\ jobs = {}

(***************************************************************************)
(* Steps: API calls.                                                       *)
(***************************************************************************)
\* A send that passes the data on as it is.
sendRaw(s, data, timestamp) ==
    push(s, data, options.sendTimeout, options.queueTimeout,
         startsWith(data, <<"stopir">>), timestamp)

\* UnifiedClient.send(data) at time Date.now() = timestamp
send(s, data, timestamp) ==
    LET msg == IF data # <<>> /\ data[Len(data)] = "CR" THEN data ELSE data \o <<"CR">>
    IN  push(s, msg, options.sendTimeout, options.queueTimeout,
             startsWith(msg, <<"stopir">>), timestamp)

\* The clock reads the same millisecond as at the latest push, or a later one.
Send(data, later) ==
    /\ msgId < MaxMsgs
    /\ Set(send(St, data, IF later /\ msgId > 0 THEN now + 1 ELSE now))

Pause == Set(pause(St))

\* resume() is called by onopen, a callback of the event loop
Resume ==
    /\ Drained
    /\ Set(resume(St))

Clear == Set(clear(St))

\* handleResponse(response) is called by the socket's data event
HandleResponse(response, elapsed) ==
    /\ Drained
    /\ isBusy(response) => Len(retryTimers) < MaxRetryTimers
    /\ Set(handleResponse(St, response, elapsed))

(***************************************************************************)
(* Steps: callbacks of the event loop.                                     *)
(***************************************************************************)
\* process.nextTick(() => this.#run())
RunTick ==
    /\ ticks > 0
    /\ Set(run([St EXCEPT !.ticks = @ - 1]))

\* the reactions to a settled msgTask
WrapperReaction(id) ==
    /\ id \in jobs
    /\ Set(removeQueueItemWrapper(St, id))

\* A queue timer that removes the item and rejects nothing.
queueTimeoutSilent(s, id) ==
    [s EXCEPT !.items[id].queueTimer = FALSE, !.list = removeItemByMsgId(@, id)]

\* the queue timer of push
queueTimeout(s, id) ==
    settlePromise([s EXCEPT !.items[id].queueTimer = FALSE,
                            !.list = removeItemByMsgId(@, id)],
                  id, ResponseError("QUEUE_TIMEOUT"))

QueueTimerFire(id) ==
    /\ Drained
    /\ items[id].queueTimer
    /\ Set(queueTimeout(St, id))

\* the send timer of timeoutPromise: it rejects the race unless msgTask settled it before;
\* the wrapper then removes the item and the client promise follows, with no other code
\* in between.
sendTimeout(s, id) ==
    LET s1 == [s EXCEPT !.items[id].sendTimer = FALSE]
    IN  IF s1.items[id].msgTask.state = "pending"
        THEN removeQueueItemWrapper(
                 [s1 EXCEPT !.items[id].msgTask = ResponseError("SEND_TIMEOUT")], id)
        ELSE s1

SendTimerFire(id) ==
    /\ Drained
    /\ items[id].sendTimer
    /\ Set(sendTimeout(St, id))

\* setTimeout(() => that.#taskFunc(request.message), retryInterval)
retry(s) == [s EXCEPT !.retryTimers = Tail(@), !.wrote = [id |-> Head(s.retryTimers), by |-> "retry"]]

RetryTimerFire ==
    /\ Drained
    /\ retryTimers # <<>>
    /\ Set(retry(St))

Next ==
    \/ \E data \in DataPool, later \in BOOLEAN : Send(data, later)
    \/ Pause
    \/ Resume
    \/ Clear
    \/ \E response \in ResponsePool, elapsed \in ElapsedPool : HandleResponse(response, elapsed)
    \/ RunTick
    \/ \E id \in Ids : WrapperReaction(id)
    \/ \E id \in Ids : QueueTimerFire(id)
    \/ \E id \in Ids : SendTimerFire(id)
    \/ RetryTimerFire

Spec == Init /\ [][Next]_vars

(***************************************************************************)
(* The framer of the client: the data event of the socket appends the      *)
(* chunk to the buffer and hands a frame to handleResponse.                *)
(***************************************************************************)
\* String.prototype.lastIndexOf("\r"), counted from 1; 0 when there is none
lastIndexOf(s, c) ==
    IF \E i \in 1..Len(s) : s[i] = c
    THEN CHOOSE i \in 1..Len(s) : s[i] = c /\ \A j \in (i + 1)..Len(s) : s[j] # c
    ELSE 0

\* String.prototype.replaceAll("\r", "\n")
replaceAll(s) == [i \in 1..Len(s) |-> IF s[i] = "CR" THEN "LF" ELSE s[i]]

DevicePrefix == <<"device", ",">>
Terminator == <<"endlistdevices", "CR">>

\* A framer that does not hold a device listing back.
onSocketDataNoListing(buf, data) ==
    LET r == buf \o data
        responseEndIndex == lastIndexOf(r, "CR")
    IN  IF responseEndIndex = 0
        THEN [response |-> r, delivered |-> FALSE, frame |-> <<>>]
        ELSE [response |-> <<>>, delivered |-> TRUE,
              frame |-> trim(replaceAll(SubSeq(r, 1, responseEndIndex - 1)))]

\* #onSocketData(data) up to the call of handleResponse: the buffer it leaves, and the
\* frame it delivers if it delivers one
onSocketData(buf, data) ==
    LET r == buf \o data
        responseEndIndex == lastIndexOf(r, "CR")
    IN  IF responseEndIndex = 0
        THEN [response |-> r, delivered |-> FALSE, frame |-> <<>>]
        ELSE IF startsWith(r, DevicePrefix) /\ ~endsWith(r, Terminator)
        THEN [response |-> r, delivered |-> FALSE, frame |-> <<>>]
        ELSE [response |-> <<>>, delivered |-> TRUE,
              frame |-> trim(replaceAll(SubSeq(r, 1, responseEndIndex - 1)))]

\* what the socket may deliver in one data event: any bytes, cut anywhere
Bytes == {"device", ",", "x", "CR", "endlistdevices"}
Chunks == UNION {[1..n -> Bytes] : n \in 1..MaxChunk}

OnSocketData(data, elapsed) ==
    /\ Len(buffer) + Len(data) <= MaxBuffer
    /\ buffer' = onSocketData(buffer, data).response
    /\ IF onSocketData(buffer, data).delivered
       THEN SetQueue(handleResponse(St, onSocketData(buffer, data).frame, elapsed))
       ELSE UNCHANGED <<msgId, list, active, paused, items, ticks, jobs, retryTimers, now,
                        options, client>>

FramerNext == \E data \in Chunks, elapsed \in ElapsedPool : OnSocketData(data, elapsed)

FramerSpec == Init /\ [][FramerNext]_vars

(***************************************************************************)
(* The infrared traffic: several sendir requests of one connector, a       *)
(* sendir of connector 1:10, whose address has the address 1:1 as its      *)
(* leading characters, and the lines that stop, complete and defer them.   *)
(***************************************************************************)
SendIr1 == <<"sendir", ",", "1:1", ",", "1", ",", "38000">>
SendIr10 == <<"sendir", ",", "1:1", "0", ",", "3", ",", "38000">>
StopIrOther == <<"stopir", ",", "1:2">>
BusyIr2 == <<"busyIR", ",", "1:1", ",", "2">>

IrDataPool == {SendIr1, SendIr2, SendIr10}
IrResponsePool == {CompleteIr2, StopIrAck, StopIrOther, BusyIr2}

\* the options of the client: the defaults, and a shorter send timeout and retry interval
OptionsPool ==
    {[sendTimeout |-> 500, queueTimeout |-> 200, retryInterval |-> 99],
     [sendTimeout |-> 150, queueTimeout |-> 100, retryInterval |-> 50]}

IrInit ==
    /\ msgId = 0
    /\ list = <<>>
    /\ active = 0
    /\ paused = FALSE
    /\ items = [id \in Ids |-> NoItem]
    /\ ticks = 0
    /\ jobs = {}
    /\ retryTimers = <<>>
    /\ now = 0
    /\ options \in OptionsPool
    /\ buffer = <<>>
    /\ client = NoClient

\* setOptions(opts), also as the first statement of connect(opts) and close(opts)
SetOptions(opts) ==
    /\ options' = opts
    /\ UNCHANGED <<msgId, list, active, paused, items, ticks, jobs, retryTimers, now, buffer,
                   client>>

IrNext ==
    \/ \E opts \in OptionsPool : SetOptions(opts)
    \/ \E data \in IrDataPool, later \in BOOLEAN : Send(data, later)
    \/ Pause
    \/ Resume
    \/ Clear
    \/ \E response \in IrResponsePool, elapsed \in ElapsedPool : HandleResponse(response, elapsed)
    \/ RunTick
    \/ \E id \in Ids : WrapperReaction(id)
    \/ \E id \in Ids : QueueTimerFire(id)
    \/ \E id \in Ids : SendTimerFire(id)
    \/ RetryTimerFire

IrSpec == IrInit /\ [][IrNext]_vars

(***************************************************************************)
(* The client and its connection.  UnifiedClient wraps one net.Socket in a *)
(* ReconnectingSocket, the supervisor, and gives it the callbacks create,  *)
(* destroy, onopen, onclose and onfail.  The supervisor is not part of the *)
(* repository; the model takes from it what the callbacks and their        *)
(* comments say: start calls create, stop calls destroy, the connect event *)
(* of the socket opens the connection and calls onopen, the close event    *)
(* closes it and calls onclose, after which the supervisor either creates  *)
(* the socket again or gives up and calls onfail.  The socket delivers     *)
(* data only while it is connected.                                        *)
(***************************************************************************)
\* #clearConnectionTimer(): the timer is cancelled, a setImmediate it has queued is not
clearConnectionTimer(c) == [c EXCEPT !.connectionTimer = FALSE]

\* #clearReconnectionTimer(): cancels the timer the field refers to
clearReconnectionTimer(c) ==
    IF c.handle THEN [c EXCEPT !.reconnections = @ - 1, !.handle = FALSE] ELSE c

\* this.#reconnectionTimer = setTimeout(this.connect.bind(this), reconnectDelay)
scheduleConnect(c) == [c EXCEPT !.reconnections = @ + 1, !.handle = TRUE]

\* create(): arms the connection timer and connects the socket
create(c) == [clearConnectionTimer(c) EXCEPT !.connectionTimer = TRUE, !.socket = "connecting"]

\* ReconnectingSocket.start()
start(c) == create([c EXCEPT !.state = "opening"])

\* ReconnectingSocket.stop(): destroy(socket); an open connection is closed through onclose
stop(c) ==
    [(IF c.state = "opened" THEN clearConnectionTimer(c) ELSE c)
        EXCEPT !.state = "stopped", !.socket = "idle"]

\* the queue after stop()
stopQueue(s) == IF client.state = "opened" THEN pause(s) ELSE s

\* #onSocketError(error): the reconnection it schedules
reconnects(c) == options.reconnect /\ c.state \notin {"opening", "reopening"}

\* An error handler that schedules a reconnection in every state.
onSocketErrorAlways(c) == scheduleConnect(c)

onSocketError(c) == IF reconnects(c) THEN scheduleConnect(c) ELSE c

\* The error #onSocketError emits for the error of the socket: wrapped as ECONNLOST with
\* the original as cause when a reconnection is scheduled; otherwise a plain error with
\* message and code is wrapped under its own code and any other error is passed on.
ConnectionError(code, cause) == [class |-> "ConnectionError", code |-> code, cause |-> cause]

emitted(c, error) ==
    IF reconnects(c) THEN ConnectionError("ECONNLOST", error)
    ELSE IF error.class # "ConnectionError" /\ error.code # "none"
    THEN ConnectionError(error.code, IF error.syscall THEN "none" ELSE error)
    ELSE error

\* A close that does not cancel the reconnection timer.
closeKeepsTimer(c, reconnect) ==
    LET c1 == stop(clearConnectionTimer(c))
    IN  IF reconnect THEN scheduleConnect(c1) ELSE c1

\* close(opts): the connection after it
close(c, reconnect) ==
    LET c1 == stop(clearReconnectionTimer(clearConnectionTimer(c)))
    IN  IF reconnect THEN scheduleConnect(c1) ELSE c1

\* connect(opts), opts giving options.reconnect
Connect(reconnect) ==
    /\ options' = [options EXCEPT !.reconnect = reconnect]
    /\ client' = start(stop(client))
    /\ SetFields(stopQueue(St))
    /\ UNCHANGED buffer

\* close(opts), opts giving options.reconnect
Close(reconnect) ==
    /\ close(client, reconnect).reconnections <= MaxReconnections
    /\ options' = [options EXCEPT !.reconnect = reconnect]
    /\ client' = close(client, reconnect)
    /\ SetFields(clear(pause(St)))
    /\ UNCHANGED buffer

\* the reconnection timer: this.connect()
ReconnectionTimerFire ==
    /\ Drained
    /\ client.reconnections > 0
    /\ client' = start(stop([client EXCEPT !.reconnections = @ - 1,
                                           !.handle = @ /\ client.reconnections > 1]))
    /\ SetFields(stopQueue(St))
    /\ UNCHANGED <<options, buffer>>

\* the connect event of the socket: onopen
SocketConnect ==
    /\ Drained
    /\ client.socket = "connecting"
    /\ client' = [clearConnectionTimer(client) EXCEPT !.state = "opened", !.socket = "connected"]
    /\ SetFields(resume(St))
    /\ UNCHANGED <<options, buffer>>

\* the error event of the socket: #onSocketError; the close event follows
SocketError ==
    /\ Drained
    /\ client.socket \in {"connecting", "connected"}
    /\ onSocketError(client).reconnections <= MaxReconnections
    /\ client' = [onSocketError(client) EXCEPT !.socket = "closing"]
    /\ SetFields(pause(St))
    /\ UNCHANGED <<options, buffer>>

\* the close event of the socket, after an error or when the device closes: onclose
SocketClose ==
    /\ Drained
    /\ client.socket \in {"closing", "connected"}
    /\ client' = [clearConnectionTimer(client) EXCEPT !.state = "closed", !.socket = "idle"]
    /\ SetFields(pause(St))
    /\ UNCHANGED <<options, buffer>>

\* the supervisor tries again: create()
Reopen ==
    /\ Drained
    /\ client.state = "closed"
    /\ client' = create([client EXCEPT !.state = "reopening"])
    /\ UNCHANGED <<msgId, list, active, paused, items, ticks, jobs, retryTimers, now, options,
                   buffer>>

\* the supervisor gives up: onfail
Fail ==
    /\ Drained
    /\ client.state = "closed"
    /\ client' = [client EXCEPT !.state = "failed"]
    /\ SetFields(pause(St))
    /\ UNCHANGED <<options, buffer>>

\* the connection timer: setImmediate(...)
ConnectionTimerFire ==
    /\ Drained
    /\ client.connectionTimer
    /\ client' = [client EXCEPT !.connectionTimer = FALSE, !.immediate = TRUE]
    /\ UNCHANGED <<msgId, list, active, paused, items, ticks, jobs, retryTimers, now, options,
                   buffer>>

\* the callback of setImmediate: the state event connectionTimeout and
\* socket.destroy(ConnectionError ETIMEDOUT), whose error event runs #onSocketError
ConnectionTimeout ==
    /\ Drained
    /\ client.immediate
    /\ onSocketError(client).reconnections <= MaxReconnections
    /\ IF client.socket \in {"connecting", "connected"}
       THEN /\ client' = [onSocketError(client) EXCEPT !.immediate = FALSE, !.socket = "closing"]
            /\ SetFields(pause(St))
       ELSE /\ client' = [client EXCEPT !.immediate = FALSE]
            /\ UNCHANGED <<msgId, list, active, paused, items, ticks, jobs, retryTimers, now>>
    /\ UNCHANGED <<options, buffer>>

\* the data event of the socket, by the lines the framer makes of it
SocketData(response, elapsed) ==
    /\ client.socket = "connected"
    /\ HandleResponse(response, elapsed)

ClientDataPool == {GetState, SendIr2, StopIr}
ClientResponsePool == {State1, CompleteIr2, BusyIr1, StopIrAck}

\* new UnifiedClient(options): the constructor pauses the queue
ClientInit ==
    /\ msgId = 0
    /\ list = <<>>
    /\ active = 0
    /\ paused = TRUE
    /\ items = [id \in Ids |-> NoItem]
    /\ ticks = 0
    /\ jobs = {}
    /\ retryTimers = <<>>
    /\ now = 0
    /\ options \in [sendTimeout : {500}, queueTimeout : QueueTimeouts, reconnect : BOOLEAN]
    /\ buffer = <<>>
    /\ client = NoClient

ClientNext ==
    \/ \E data \in ClientDataPool : Send(data, FALSE)
    \/ \E reconnect \in BOOLEAN : Connect(reconnect)
    \/ \E reconnect \in BOOLEAN : Close(reconnect)
    \/ ReconnectionTimerFire
    \/ SocketConnect
    \/ SocketError
    \/ SocketClose
    \/ Reopen
    \/ Fail
    \/ ConnectionTimerFire
    \/ ConnectionTimeout
    \/ \E response \in ClientResponsePool : SocketData(response, 0)
    \/ RunTick
    \/ \E id \in Ids : WrapperReaction(id)
    \/ \E id \in Ids : QueueTimerFire(id)
    \/ \E id \in Ids : SendTimerFire(id)
    \/ RetryTimerFire

ClientSpec == ClientInit /\ [][ClientNext]_vars

(***************************************************************************)
(* The queue with version requests and requests outside the request table. *)
(***************************************************************************)
GetVersion == <<"getversion">>
Foobar1 == <<"foobar", ",", "1:1">>

\* version lines: a known iTach model, an unknown model
Version710 == <<"710-", "1005-", "05">>
VersionOther == <<"710-", "9999-", "05">>

VersionDataPool == {GetVersion, GetState, Foobar1}
VersionResponsePool == {Version710, VersionOther, State1}

VersionNext ==
    \/ \E data \in VersionDataPool, later \in BOOLEAN : Send(data, later)
    \/ Pause
    \/ Resume
    \/ Clear
    \/ \E response \in VersionResponsePool, elapsed \in ElapsedPool :
           HandleResponse(response, elapsed)
    \/ RunTick
    \/ \E id \in Ids : WrapperReaction(id)
    \/ \E id \in Ids : QueueTimerFire(id)
    \/ \E id \in Ids : SendTimerFire(id)

VersionSpec == Init /\ [][VersionNext]_vars

(***************************************************************************)
(* The queue with infrared requests whose ids and connectors share leading *)
(* characters, and busy lines with and without the connector and id.       *)
(***************************************************************************)
SendIr12 == <<"sendir", ",", "1:1", ",", "1", "2", ",", "38000">>
BusyBare == <<"busyIR">>

BusyDataPool == {SendIr1, SendIr12, SendIr10}
BusyResponsePool == {BusyIr1, BusyBare}

BusyNext ==
    \/ \E data \in BusyDataPool, later \in BOOLEAN : Send(data, later)
    \/ Pause
    \/ Resume
    \/ Clear
    \/ \E response \in BusyResponsePool, elapsed \in ElapsedPool :
           HandleResponse(response, elapsed)
    \/ RunTick
    \/ \E id \in Ids : WrapperReaction(id)
    \/ \E id \in Ids : QueueTimerFire(id)
    \/ \E id \in Ids : SendTimerFire(id)
    \/ RetryTimerFire

BusySpec == Init /\ [][BusyNext]_vars

\* The event loop runs the pending nextTick callbacks and promise reactions, and an armed
\* timer fires at some time at which the loop is idle.
FairSpec ==
    /\ Spec
    /\ WF_vars(RunTick)
    /\ \A id \in Ids : WF_vars(WrapperReaction(id))
    /\ \A id \in Ids : SF_vars(QueueTimerFire(id))
    /\ \A id \in Ids : SF_vars(SendTimerFire(id))
    /\ SF_vars(RetryTimerFire)

(***************************************************************************)
(* Vocabulary of the properties.                                           *)
(***************************************************************************)
InList(id) == \E i \in 1..Len(list) : list[i] = id

\* handed to taskFunc by #run and msgTask not settled: the request awaits its response
InFlight(id) == items[id].processed /\ items[id].msgTask.state = "pending"

\* in the queue and not yet picked by #run
Unsent(id) == InList(id) /\ ~items[id].processed

\* What the promise of send settles with: its own state, or the state of the msgTask it
\* follows once that is settled and only the promise reactions are outstanding.
FateOf(it) ==
    IF Settled(it.promise) THEN it.promise
    ELSE IF it.locked /\ Settled(it.msgTask) THEN it.msgTask
    ELSE Pending

Fate(id) == FateOf(items[id])

Undecided(id) == id <= msgId /\ Fate(id) = Pending

\* The step lets #run hand the request to taskFunc.
Dispatched(id) == ~items[id].processed /\ items'[id].processed

\* The step is the timer of a busy re-send of the request.
Resent(id) == retryTimers # <<>> /\ Head(retryTimers) = id /\ retryTimers' = Tail(retryTimers)

\* The step calls taskFunc with the message of the request.
Written(id) == Dispatched(id) \/ Resent(id)

(***************************************************************************)
(* C1: at most one request is in flight in every reachable state.          *)
(* #run adds to and takes from #active in one synchronous call, so the     *)
(* guard active >= 1 never holds when #run starts: the statement fails.    *)
(***************************************************************************)
C1_AtMostOneInFlight == Cardinality({id \in Ids : InFlight(id)}) <= 1

(***************************************************************************)
(* C2: while the queue is paused no step calls taskFunc.  The timer of a   *)
(* busy re-send does not read #paused: the statement fails.                *)
(***************************************************************************)
C2_NoSendWhilePaused == [][paused => \A id \in Ids : ~Written(id)]_vars

(***************************************************************************)
(* C3: when armed timers fire, the promise of every send settles, with no  *)
(* need of a response, a resume or a clear.                                *)
(***************************************************************************)
C3_EverySendSettles == \A id \in Ids : (id <= msgId) ~> Settled(items[id].promise)

\* one request expired in the paused queue, another one timed out on the wire
C3_Witness ==
    \E a, b \in Ids :
        /\ items[a].promise = ResponseError("QUEUE_TIMEOUT")
        /\ items[b].promise = ResponseError("SEND_TIMEOUT")

(***************************************************************************)
(* C4: the promise of a send settles with a line of the device, or rejects *)
(* with a ConnectionError, with the ResponseError of a device error, or    *)
(* with a ResponseError of code QUEUE_TIMEOUT, SEND_TIMEOUT or             *)
(* QUEUE_CLEARED; never with a raw string or a TypeError.  Stated for a     *)
(* client with a positive sendTimeout, where the queue and not the send    *)
(* callback settles the promise.  The code rejects with the raw error line *)
(* and throws a TypeError: the statement fails.                            *)
(***************************************************************************)
\* the lines a promise may be fulfilled with: those of the device, and the repeatir marker
DeviceLines == {State1, CompleteIr2, StopIrAck, <<"repeatir">>}
QueueCodes == {"QUEUE_TIMEOUT", "SEND_TIMEOUT", "QUEUE_CLEARED"}
DeviceCodes == {"014"}

C4_Outcomes ==
    \A id \in Ids :
        (options.sendTimeout > 0 /\ Settled(items[id].promise)) =>
            \/ /\ items[id].promise.state = "fulfilled"
               /\ items[id].promise.class = "string"
               /\ items[id].promise.val \in DeviceLines
            \/ /\ items[id].promise.state = "rejected"
               /\ items[id].promise.class = "ConnectionError"
            \/ /\ items[id].promise.state = "rejected"
               /\ items[id].promise.class = "ResponseError"
               /\ \E code \in QueueCodes \cup DeviceCodes : items[id].promise.val = <<code>>

(***************************************************************************)
(* C5: clear() empties the queue, calls taskFunc for nothing and rejects   *)
(* with QUEUE_CLEARED every request that is in the queue, unsent or in     *)
(* flight, and not settled yet; what a promise settled with never changes. *)
(***************************************************************************)
QueueCleared == ResponseError("QUEUE_CLEARED")

C5_ClearRejectsQueued ==
    /\ [](LET s == clear(St)
          IN  /\ s.list = <<>>
              /\ s.wrote = NoWrite
              /\ \A id \in Ids :
                     (InList(id) /\ Undecided(id)) => FateOf(s.items[id]) = QueueCleared)
    /\ [][\A id \in Ids : (id <= msgId /\ Fate(id) # Pending) => Fate(id)' = Fate(id)]_vars

\* C5 as stated, for the requests in flight: clear() rejects every request that was handed
\* to taskFunc and whose promise is pending, in the queue or not.  A request the queue
\* dropped as superseded is not reached by clear().
C5_ClearRejectsPending ==
    LET s == clear(St)
    IN  \A id \in Ids :
            (items[id].processed /\ Undecided(id)) => FateOf(s.items[id]) = QueueCleared

\* clear() has rejected a request in flight and an unsent one
C5_Witness ==
    /\ list = <<>>
    /\ \E a, b \in Ids :
           /\ items[a].processed /\ items[a].promise = QueueCleared
           /\ ~items[b].processed /\ items[b].promise = QueueCleared

(***************************************************************************)
(* C6: the queue timer removes the unsent request and rejects its promise  *)
(* with QUEUE_TIMEOUT, and no later step calls taskFunc with the request.  *)
(* The timer of a busy re-send armed before calls it: the statement fails. *)
(***************************************************************************)
QueueTimeout == ResponseError("QUEUE_TIMEOUT")

C6_ExpiredNeverSent ==
    [][\A id \in Ids :
          /\ (QueueTimerFire(id) /\ items[id].promise.state = "pending") =>
                 (~InList(id)' /\ items'[id].promise = QueueTimeout)
          /\ items[id].promise = QueueTimeout => ~Written(id)]_vars

(***************************************************************************)
(* C7: the send timer of a dispatched request that got no response rejects *)
(* its promise with SEND_TIMEOUT and the item leaves the queue; whenever   *)
(* the promise of a dispatched request with a send timeout settles, the    *)
(* item is not in the queue.                                               *)
(***************************************************************************)
SendTimeout == ResponseError("SEND_TIMEOUT")

C7_SendTimeout ==
    [][\A id \in Ids :
          /\ (SendTimerFire(id) /\ items[id].msgTask.state = "pending") =>
                 /\ ~InList(id)'
                 /\ Undecided(id) => items'[id].promise = SendTimeout
          /\ (/\ items[id].processed
              /\ items[id].sendTimeout > 0
              /\ ~Settled(items[id].promise)
              /\ Settled(items'[id].promise)) => ~InList(id)']_vars

\* a request timed out on the wire and left the queue, which still holds another one
C7_Witness ==
    \E id \in Ids : items[id].promise = SendTimeout /\ ~InList(id) /\ list # <<>>

(***************************************************************************)
(* Ordinary lines, and the requests of the queue a line concerns.          *)
(***************************************************************************)
OrdinaryPool == {r \in ResponsePool : ~isErrorResponse(r) /\ ~isBusy(r)}

\* the positions of the queue whose request expects the line
Expecting(r) == {i \in 1..Len(list) : startsWith(r, items[list[i]].expected)}

\* the queue holds a sendir for the connector of a stopir line
StopsSendir(r) ==
    /\ startsWith(r, <<"stopir">>)
    /\ \E i \in 1..Len(list) : startsWith(items[list[i]].message, <<"sendir">> \o Tail(r))

\* the line answers a request that was rejected with SEND_TIMEOUT
Late(r) ==
    \E id \in Ids : items[id].promise = SendTimeout /\ startsWith(r, items[id].expected)

(***************************************************************************)
(* C8: a line that answers a request rejected with SEND_TIMEOUT, arriving  *)
(* when no request of the queue expects it and it stops no sendir of the   *)
(* queue, is ignored: handleResponse returns false and changes nothing.    *)
(* When a request of the queue expects it, the first such request is       *)
(* resolved with it.                                                       *)
(***************************************************************************)
C8_LateResponse ==
    \A r \in OrdinaryPool, elapsed \in ElapsedPool :
        (Drained /\ Late(r)) =>
            LET s == handleResponse(St, r, elapsed)
            IN  IF Expecting(r) = {} /\ ~hasModel(r) /\ ~StopsSendir(r)
                THEN s = [St EXCEPT !.ret = "false"]
                ELSE Expecting(r) # {} =>
                         LET id == list[CHOOSE i \in Expecting(r) : \A j \in Expecting(r) : i <= j]
                         IN  /\ s.ret = "true"
                             /\ Undecided(id) => FateOf(s.items[id]) = Fulfilled(r)

\* C8 as stated: the late line resolves no request and leaves the queue as it is.
C8_LateIgnored ==
    \A r \in OrdinaryPool, elapsed \in ElapsedPool :
        (Drained /\ Late(r)) => handleResponse(St, r, elapsed) = [St EXCEPT !.ret = "false"]

\* a request timed out, the queue holds another request, unsettled, that does not expect
\* the late line: the line is ignored in this state
C8_Witness ==
    \E r \in OrdinaryPool :
        /\ Drained /\ Late(r)
        /\ Expecting(r) = {} /\ ~StopsSendir(r)
        /\ \E id \in Ids : InList(id) /\ Undecided(id)
        /\ handleResponse(St, r, 0).ret = "false"

(***************************************************************************)
(* C9: an ordinary line that a request of the queue expects resolves the   *)
(* first such request in queue order with the line and removes it, and     *)
(* handleResponse returns true; among requests pushed without priority the *)
(* first is the one pushed first.                                          *)
(***************************************************************************)
C9_FirstExpecting ==
    \A r \in OrdinaryPool, elapsed \in ElapsedPool :
        (Drained /\ Expecting(r) # {}) =>
            LET id == list[CHOOSE i \in Expecting(r) : \A j \in Expecting(r) : i <= j]
                s == handleResponse(St, r, elapsed)
            IN  /\ s.ret = "true"
                /\ \A i \in 1..Len(s.list) : s.list[i] # id
                /\ Undecided(id) => FateOf(s.items[id]) = Fulfilled(r)
                /\ (\A i \in Expecting(r) : ~items[list[i]].priority) =>
                       \A i \in Expecting(r) : id <= list[i]

\* two requests in flight, pushed without priority, expect the same line: the line resolves
\* the one pushed first and leaves the other in the queue
C9_Witness ==
    \E r \in OrdinaryPool, a, b \in Ids :
        /\ Drained
        /\ a < b
        /\ InList(a) /\ InFlight(a) /\ ~items[a].priority /\ startsWith(r, items[a].expected)
        /\ InList(b) /\ InFlight(b) /\ ~items[b].priority /\ startsWith(r, items[b].expected)
        /\ LET s == handleResponse(St, r, 0)
           IN  /\ s.ret = "true"
               /\ FateOf(s.items[a]) = Fulfilled(r)
               /\ FateOf(s.items[b]) = Pending
               /\ \E i \in 1..Len(s.list) : s.list[i] = b

(***************************************************************************)
(* C10: push puts a priority request at the head of the queue and any      *)
(* other at the tail, leaving the requests already dispatched as they are; *)
(* a request not yet dispatched is handed to taskFunc only when no         *)
(* priority request pushed after it, and no request pushed before it if    *)
(* neither has priority, is still unsent in the queue.  The timer of a     *)
(* busy re-send hands over an unsent request out of turn: the statement    *)
(* fails.                                                                  *)
(***************************************************************************)
C10_PriorityFirst ==
    [][/\ (msgId' = msgId + 1 /\ \E i \in 1..Len(list') : list'[i] = msgId') =>
              /\ items'[msgId'].priority = startsWith(items'[msgId'].message, <<"stopir">>)
              /\ IF items'[msgId'].priority
                 THEN list'[1] = msgId' /\ Tail(list') = list
                 ELSE list'[Len(list')] = msgId' /\ SubSeq(list', 1, Len(list)) = list
              /\ \A k \in Ids :
                     (items[k].processed /\ items'[msgId'].priority) => items'[k] = items[k]
       /\ \A j \in Ids :
              (Written(j) /\ ~items[j].processed) =>
                  \A p \in Ids \ {j} :
                      Unsent(p) =>
                          /\ ~(items[p].priority /\ p > j)
                          /\ ~(~items[p].priority /\ ~items'[j].priority /\ p < j)]_vars

\* The order of C10 for the hand-overs of #run alone, which holds.
DispatchOrder ==
    [][\A j \in Ids :
          Dispatched(j) =>
              \A p \in Ids \ {j} :
                  Unsent(p) =>
                      /\ ~(items[p].priority /\ p > j)
                      /\ ~(~items[p].priority /\ ~items'[j].priority /\ p < j)]_vars

\* The statement of C6 for the hand-overs of #run alone, which holds.
ExpiredNeverDispatched ==
    [][\A id \in Ids : items[id].promise = QueueTimeout => ~Dispatched(id)]_vars

(***************************************************************************)
(* Error lines.                                                            *)
(***************************************************************************)
ErrorPool == {r \in ResponsePool : isErrorResponse(r)}

\* the code of the ResponseError checkErrorResponse builds from an ERR_ line: its last
\* three characters
errorCode(r) == r[Len(r)]

(***************************************************************************)
(* C11: an error line handled while the queue is not empty rejects the     *)
(* promise of the request taken for it with the ResponseError of the line, *)
(* in flight or unsent.  handleErrorResponse passes the line itself to     *)
(* msgReject and rejects nothing when the request is unsent: the statement *)
(* fails.                                                                  *)
(***************************************************************************)
C11_ErrorRejects ==
    \A r \in ErrorPool, elapsed \in ElapsedPool :
        (Drained /\ list # <<>>) =>
            LET s == handleResponse(St, r, elapsed)
            IN  \A id \in Ids :
                    (InList(id) /\ Undecided(id) /\ \A i \in 1..Len(s.list) : s.list[i] # id) =>
                        FateOf(s.items[id]) = ResponseError(errorCode(r))

(***************************************************************************)
(* C12: the request removed for an error line is the one pushed first      *)
(* among those in the queue, and every other request is left as it is.     *)
(* #resolveError shifts the head of the list, which is the latest priority *)
(* request and not the oldest one: the statement fails.                    *)
(***************************************************************************)
C12_OldestFirst ==
    \A r \in ErrorPool, elapsed \in ElapsedPool :
        (Drained /\ list # <<>>) =>
            LET s == handleResponse(St, r, elapsed)
                oldest == CHOOSE id \in Ids : InList(id) /\ \A k \in Ids : InList(k) => id <= k
            IN  /\ s.list = removeItemByMsgId(list, oldest)
                /\ \A id \in Ids \ {oldest} : s.items[id] = items[id]

(***************************************************************************)
(* The stopir loop of handleNormalResponse, by the characters of the       *)
(* messages: a stopir line resolves with that line every request of the    *)
(* queue whose message has sendir and the rest of the line as its leading  *)
(* characters, in flight or unsent, in the order the requests were pushed, *)
(* and settles no other sendir.                                            *)
(***************************************************************************)
StopLines == {StopIrAck, StopIrOther}

\* the connector address of a request or of a line: its second field
connector(m) == split(trim(m), 3)[2]

\* the requests of the queue a stopir line stops
Stopped(r) ==
    {id \in Ids : InList(id) /\ startsWith(items[id].message, <<"sendir">> \o Tail(r))}

C13_StopResolvesSendir ==
    \A r \in StopLines, elapsed \in ElapsedPool :
        Drained =>
            LET s == handleResponse(St, r, elapsed)
            IN  /\ \A id \in Stopped(r) : Undecided(id) => FateOf(s.items[id]) = Fulfilled(r)
                /\ {s.resolved[i] : i \in 1..Len(s.resolved)} = Stopped(r)
                /\ \A i, j \in 1..Len(s.resolved) : i < j => s.resolved[i] < s.resolved[j]
                /\ \A id \in Ids \ Stopped(r) :
                       startsWith(items[id].message, <<"sendir">>) =>
                           FateOf(s.items[id]) = Fate(id)

\* two sendir requests of one connector, one in flight and one unsent, both unsettled, are
\* resolved by the stopir line of the connector in the order of their pushes, and left
\* alone by the stopir line of another connector
C13_Witness ==
    \E a, b \in Ids :
        /\ Drained
        /\ a < b
        /\ a \in Stopped(StopIrAck) /\ InFlight(a) /\ Undecided(a)
        /\ b \in Stopped(StopIrAck) /\ ~items[b].processed /\ Undecided(b)
        /\ handleResponse(St, StopIrAck, 0).resolved = <<a, b>>
        /\ FateOf(handleResponse(St, StopIrAck, 0).items[b]) = Fulfilled(StopIrAck)
        /\ handleResponse(St, StopIrOther, 0).resolved = <<>>

\* the sendir requests of the queue for the connector of a stopir line
StoppedConnector(r) ==
    {id \in Ids : /\ InList(id)
                  /\ startsWith(items[id].message, <<"sendir", ",">>)
                  /\ connector(items[id].message) = connector(r)}

(***************************************************************************)
(* C13: a stopir line for a connector resolves with that line every sendir *)
(* request of the queue for that connector, in flight or unsent, in the    *)
(* order the requests were pushed, and resolves no request for another     *)
(* connector.                                                              *)
(***************************************************************************)
C13_StopResolvesConnector ==
    \A r \in StopLines, elapsed \in ElapsedPool :
        Drained =>
            LET s == handleResponse(St, r, elapsed)
            IN  /\ \A id \in StoppedConnector(r) :
                       Undecided(id) => FateOf(s.items[id]) = Fulfilled(r)
                /\ {s.resolved[i] : i \in 1..Len(s.resolved)} = StoppedConnector(r)
                /\ \A i, j \in 1..Len(s.resolved) : i < j => s.resolved[i] < s.resolved[j]
                /\ \A id \in Ids \ StoppedConnector(r) :
                       startsWith(items[id].message, <<"sendir">>) =>
                           FateOf(s.items[id]) = Fate(id)

\* the busy lines of the device
BusyPool == {BusyIr1, BusyIr2}

\* the line that completes a sendir request: completeir, connector, id
completeLine(m) == expectedResponse(m)

(***************************************************************************)
(* C14: when the only request of the queue is a sendir in flight and the   *)
(* device emits the busy line with the connector and the id of that        *)
(* request while budget remains, a re-send is scheduled and the request    *)
(* stays in the queue, unsettled; the re-send passes the message of the    *)
(* request to the send callback again, and the completeir line of the      *)
(* request then resolves the request with that line.                       *)
(***************************************************************************)
C14_BusyRetry ==
    \A b \in BusyPool, elapsed \in ElapsedPool :
        (/\ Drained
         /\ Len(list) = 1
         /\ InFlight(list[1]) /\ Undecided(list[1])
         /\ startsWith(items[list[1]].message, <<"sendir">> \o Tail(b))
         /\ retryTimers = <<>>
         /\ (elapsed + retryInterval) + 100 < sendTimeoutOption) =>
            LET id == list[1]
                s1 == handleResponse(St, b, elapsed)
            IN  /\ s1.retryTimers = <<id>>
                /\ s1.list = list /\ s1.items = items /\ s1.wrote = NoWrite
                /\ retry(s1).wrote.id = id
                /\ retry(s1).list = list /\ retry(s1).items = items
                /\ FateOf(handleResponse(retry(s1), completeLine(items[id].message),
                                         elapsed).items[id])
                       = Fulfilled(completeLine(items[id].message))

\* the request a busy line selects, when it is in the queue and unsettled
Selected(b) == getBusyIrRequest(St, b)

(***************************************************************************)
(* C15: for the sendir request a busy line selects, a re-send is scheduled *)
(* if and only if the time since the request plus retryInterval plus 100   *)
(* is strictly less than the send timeout; otherwise, at equality too, the *)
(* request is rejected with BUSY_IR and the call schedules no re-send.     *)
(***************************************************************************)
C15_BusyBudget ==
    \A b \in BusyPool, elapsed \in ElapsedPool :
        (Drained /\ Selected(b) # 0 /\ Undecided(Selected(b))) =>
            LET id == Selected(b)
                s == handleResponse(St, b, elapsed)
            IN  IF (elapsed + options.retryInterval) + 100 < options.sendTimeout
                THEN s.retryTimers = Append(retryTimers, id) /\ FateOf(s.items[id]) = Pending
                ELSE /\ s.retryTimers = retryTimers
                     /\ FateOf(s.items[id]) = ResponseError("BUSY_IR")

(***************************************************************************)
(* C16: the delay of the re-send and the send timeout of the budget are    *)
(* options.retryInterval and options.sendTimeout of the client as they are *)
(* when the busy line is handled.                                          *)
(***************************************************************************)
C16_CurrentOptions ==
    \A b \in BusyPool, elapsed \in ElapsedPool :
        (Drained /\ Selected(b) # 0 /\ Undecided(Selected(b))) =>
            LET id == Selected(b)
                s == handleResponse(St, b, elapsed)
            IN  /\ s.retryTimers # retryTimers => s.delay = options.retryInterval
                /\ FateOf(s.items[id]) = ResponseError("BUSY_IR")
                       <=> (elapsed + options.retryInterval) + 100 > options.sendTimeout

\* the sendir requests the application sends
SendIrPool == {d \in DataPool \cup IrDataPool : startsWith(d, <<"sendir">>)}

\* the first request of the queue with the bytes send makes of the data, 0 if there is none
Identical(data) == sameMessage(St, data \o <<"CR">>)

(***************************************************************************)
(* C17: a push of a sendir whose request string is identical to that of a  *)
(* request in the queue resolves the send promise of that request with     *)
(* repeatir, when the request is unsent as well as when it is in flight,   *)
(* and the push does not fail.                                             *)
(***************************************************************************)
C17_RepeatResolvesExisting ==
    \A data \in SendIrPool :
        (msgId < MaxMsgs /\ Identical(data) # 0 /\ Undecided(Identical(data))) =>
            LET s == send(St, data, now)
            IN  /\ FateOf(s.items[Identical(data)]) = Fulfilled(<<"repeatir">>)
                /\ s.items[msgId + 1].promise # TypeError

(***************************************************************************)
(* C18: a push of a sendir identical to a request in the queue enqueues no *)
(* duplicate: the queue has no more items after the push than before, the  *)
(* pushed request is not in the queue and the push writes nothing.         *)
(***************************************************************************)
C18_NoDuplicate ==
    \A data \in SendIrPool :
        (msgId < MaxMsgs /\ Identical(data) # 0) =>
            LET s == send(St, data, now)
            IN  /\ Len(s.list) <= Len(list)
                /\ \A i \in 1..Len(s.list) : s.list[i] # msgId + 1
                /\ s.wrote = NoWrite

\* the lines of a buffer that ends with the record separator, joined by line feeds
RECURSIVE linesJoined(_)
linesJoined(r) ==
    IF r = <<>> \/ r = <<"CR">> THEN <<>>
    ELSE IF Head(r) = "CR" THEN <<"LF">> \o linesJoined(Tail(r))
    ELSE <<Head(r)>> \o linesJoined(Tail(r))

(***************************************************************************)
(* C19: while the buffer begins with device, and does not end with         *)
(* endlistdevices and the record separator, the framer delivers no frame   *)
(* and keeps every byte, wherever the chunks are cut; with the chunk that  *)
(* completes the terminator it delivers one frame, the lines of the        *)
(* listing joined by line feeds, and empties the buffer.                   *)
(***************************************************************************)
C19_ListingFraming ==
    \A data \in Chunks :
        LET r == buffer \o data
            o == onSocketData(buffer, data)
        IN  startsWith(r, DevicePrefix) =>
                IF endsWith(r, Terminator)
                THEN o.delivered /\ o.frame = linesJoined(r) /\ o.response = <<>>
                ELSE ~o.delivered /\ o.response = r

\* a listing whose first line is held back in the buffer and whose terminator is cut
\* before the record separator: the last chunk delivers the listing
C19_Witness ==
    /\ buffer = <<"device", ",", "x", "CR", "endlistdevices">>
    /\ onSocketData(buffer, <<"CR">>).delivered
    /\ onSocketData(buffer, <<"CR">>).frame = <<"device", ",", "x", "LF", "endlistdevices">>

\* the bytes of a string that are not white space
RECURSIVE strip(_)
strip(s) ==
    IF s = <<>> THEN <<>>
    ELSE IF Head(s) \in WhiteSpace THEN strip(Tail(s))
    ELSE <<Head(s)>> \o strip(Tail(s))

(***************************************************************************)
(* C20: outside a device listing the framer delivers a frame only when the *)
(* buffer ends with the record separator, and every byte received is       *)
(* either delivered in the frame or kept in the buffer.                    *)
(***************************************************************************)
C20_CompleteLinesOnly ==
    \A data \in Chunks :
        LET r == buffer \o data
            o == onSocketData(buffer, data)
        IN  ~startsWith(r, DevicePrefix) =>
                /\ o.delivered => endsWith(r, <<"CR">>)
                /\ strip(r) = strip(o.frame) \o strip(o.response)

\* what the application may pass to send: the requests with and without the record
\* separator, with two of them, and the empty string
Plain == DataPool \cup IrDataPool \cup {<<>>}
SendData == Plain \cup {x \o <<"CR">> : x \in Plain} \cup {x \o <<"CR", "CR">> : x \in Plain}

Opened == client.state = "opened"

\* The pauses of the client keep the queue paused whenever the connection is not opened.
PausedUnlessOpened == ~Opened => paused

(***************************************************************************)
(* C22: the queue is paused whenever the connection state is not opened,   *)
(* from the construction of the client on, and no step writes a request    *)
(* to the socket while the connection state is not opened.                 *)
(***************************************************************************)
C22_NoWriteUnlessOpened ==
    /\ [](~Opened => paused)
    /\ [][~Opened => \A id \in Ids : ~Written(id)]_vars

\* The step is the close event of the socket after a transport error.
TransportClosed == client.socket = "closing" /\ client'.state = "closed"

\* the promise is rejected with a ConnectionError
IsConnectionError(p) == p.state = "rejected" /\ p.class = "ConnectionError"

(***************************************************************************)
(* C23: a transport error while a request is in flight rejects the send    *)
(* promise of the request with a ConnectionError: when the close event     *)
(* that follows the error has been handled, no request that was in flight  *)
(* is left pending.                                                        *)
(***************************************************************************)
C23_TransportErrorRejects ==
    [][\A id \in Ids :
           (TransportClosed /\ InFlight(id) /\ Undecided(id)) => IsConnectionError(Fate(id)')]_vars

\* The step is a drop of the connection: the error or the close event of the socket, or the
\* supervisor giving up.
Drop ==
    \/ client.socket \in {"connecting", "connected"} /\ client'.socket = "closing"
    \/ client.socket \in {"closing", "connected"} /\ client'.state = "closed"
    \/ client.state = "closed" /\ client'.state = "failed"

\* The step is close(opts) of the application.
Closing == client'.state = "stopped" /\ paused' /\ list' = <<>> /\ client'.socket = "idle"

\* in the queue, not handed to taskFunc, not settled
Waiting(id) == Unsent(id) /\ Undecided(id)

(***************************************************************************)
(* C24: a drop of the connection neither rejects nor removes the requests  *)
(* that are unsent, and leaves their order.  An unsent request has its     *)
(* queue timer armed and leaves the queue in one of three ways: #run hands *)
(* it to the socket while the connection is opened, in queue order; its    *)
(* queue timer rejects it with QUEUE_TIMEOUT, after which it is never      *)
(* written; or close() of the application clears the queue.                *)
(***************************************************************************)
C24_UnsentSurviveDrop ==
    /\ [](\A id \in Ids : Waiting(id) => items[id].queueTimer /\ (paused \/ ticks > 0))
    /\ [][\A id \in Ids :
              Waiting(id) =>
                  /\ Drop => (list' = list /\ items'[id] = items[id])
                  /\ \/ Waiting(id)' /\ ~Written(id)
                     \/ Dispatched(id) /\ Opened /\ client.socket = "connected"
                     \/ Fate(id)' = QueueTimeout /\ ~InList(id)' /\ ~Written(id)
                     \/ Closing /\ Fate(id)' = QueueCleared]_vars
    /\ [][\A id \in Ids : items[id].promise = QueueTimeout => ~Written(id)]_vars
    /\ DispatchOrder

\* the connection has dropped and is closed, and two requests wait unsent in the queue
C24_Witness ==
    /\ client.state = "closed"
    /\ Len(list) = 2
    /\ \A id \in Ids : Waiting(id)

\* The step starts a connection attempt: create() connects the socket.
AttemptStarted == client'.socket = "connecting" /\ client'.connectionTimer /\ client' # client

\* The step is the reconnection timer calling connect().
TimerConnects == client'.reconnections < client.reconnections /\ client'.state = "opening"

(***************************************************************************)
(* C25: close(opts) applies opts, pauses and clears the queue, cancels the *)
(* connection timer and the reconnection timer and stops the supervisor,   *)
(* and schedules a connect exactly when options.reconnect is true after    *)
(* opts; after close with reconnect false no connection attempt is started *)
(* until the application calls connect().                                  *)
(***************************************************************************)
C25_Close ==
    /\ [](\A reconnect \in BOOLEAN :
              LET c == close(client, reconnect)
                  s == clear(pause(St))
              IN  /\ c.state = "stopped" /\ c.socket = "idle"
                  /\ ~c.connectionTimer
                  /\ c.handle <=> reconnect
                  /\ c.reconnections = IF reconnect THEN 1 ELSE 0
                  /\ s.paused /\ s.list = <<>>
                  /\ \A id \in Ids : (InList(id) /\ Undecided(id)) =>
                                         FateOf(s.items[id]) # Pending)
    /\ [][(client.state = "stopped" /\ ~options.reconnect /\ AttemptStarted) =>
              ~TimerConnects]_vars

\* The attempt in progress has not completed within connectionTimeout: its
\* connection timer has expired while the socket is still connecting.
TimedOut == client.socket = "connecting" /\ ~client.connectionTimer

\* onopen runs: 'connect' is emitted.
ConnectEmitted == client.state # "opened" /\ client'.state = "opened"

(***************************************************************************)
(* C26: when a connection attempt has not completed within                 *)
(* connectionTimeout, the timeout is published and the socket destroyed    *)
(* with the ETIMEDOUT error, an 'error' event is emitted, and no 'connect' *)
(* event is emitted for that attempt.                                      *)
(***************************************************************************)
C26_ConnectionTimeout ==
    /\ [](TimedOut => client.immediate)
    /\ [][(TimedOut /\ client.immediate /\ ~client'.immediate) =>
              client'.socket = "closing" /\ paused']_vars
    /\ [][TimedOut => ~ConnectEmitted]_vars

\* Lines that begin as a version line does.
VersionLines ==
    {Version710, VersionOther, <<"710-", "3000-", "11">>, <<"710-">>,
     <<"version", ",", "1", ",", "3.0-6">>, <<"version", ",", "1", ",", "9.9-9">>}

\* The first queued request whose message starts with getversion.
GetversionRequest == list[firstGetversion(St)]

(***************************************************************************)
(* C28: a line that no queued request expects and that is a version string *)
(* of a known model removes the first queued request whose message starts  *)
(* with getversion and resolves its send promise with the line; a version  *)
(* line of an unknown model that no request expects resolves nothing.      *)
(***************************************************************************)
C28_VersionFallback ==
    \A r \in VersionLines, elapsed \in ElapsedPool :
        (Drained /\ Expecting(r) = {}) =>
            LET s == handleResponse(St, r, elapsed)
            IN  IF hasModel(r) /\ firstGetversion(St) # 0
                THEN /\ s.ret = "true"
                     /\ \A i \in 1..Len(s.list) : s.list[i] # GetversionRequest
                     /\ Undecided(GetversionRequest) =>
                            FateOf(s.items[GetversionRequest]) = Fulfilled(r)
                     /\ \A id \in Ids \ {GetversionRequest} : FateOf(s.items[id]) = Fate(id)
                ELSE /\ s.ret = "false"
                     /\ s.list = list
                     /\ s.items = items

C28_Witness ==
    /\ Drained
    /\ Len(list) = 2
    /\ items[list[1]].message = GetState \o <<"CR">>
    /\ items[list[2]].message = GetVersion \o <<"CR">>
    /\ InFlight(list[2])
    /\ LET s == handleResponse(St, Version710, 0)
       IN  /\ s.list = <<list[1]>>
           /\ FateOf(s.items[list[2]]) = Fulfilled(Version710)
           /\ handleResponse(St, VersionOther, 0).list = list

\* What the lookup of a missing key yields, as startsWith and string concatenation read it.
undefined == <<"undefined">>

\* Requests whose leading command token is not in the request table.
UnknownRequests ==
    {<<"foobar">>, <<"foobar", "CR">>, Foobar1, Foobar1 \o <<"CR">>,
     <<"foobar", ",", "1:1", ",", "3">>}

UnknownCommand(message) == Requests(split(trim(message), 3)[1]) = undefined

(***************************************************************************)
(* C29: expectedResponse returns undefined for every request whose leading *)
(* command token is not in the request table, with or without a connector  *)
(* part, so that no line of the device matches such a request by prefix.   *)
(***************************************************************************)
C29_UnknownHasNoPrefix ==
    /\ \A m \in UnknownRequests : expectedResponse(m) = undefined
    /\ \A id \in Ids : (id <= msgId /\ UnknownCommand(items[id].message)) =>
           /\ items[id].expected = undefined
           /\ \A r \in VersionResponsePool \cup ResponsePool \cup VersionLines :
                  ~startsWith(r, items[id].expected)

(***************************************************************************)
(* C30: whenever the event loop is idle, the queue timer of a request is   *)
(* armed exactly while the request is unsent (queued, not dispatched, not  *)
(* settled) and its send timer exactly while it is in flight; a request    *)
(* that has completed by any path has neither timer armed.                 *)
(***************************************************************************)
C30_Timers ==
    Drained =>
        \A id \in Ids : id <= msgId =>
            /\ items[id].queueTimer <=> (Unsent(id) /\ Undecided(id))
            /\ items[id].sendTimer <=> InFlight(id)
            /\ ~Undecided(id) => (~items[id].queueTimer /\ ~items[id].sendTimer)

(***************************************************************************)
(* C31: the dispatch of a request cancels its queue timer and arms its     *)
(* send timer only then, so a request that was handed to the send callback *)
(* is not rejected with QUEUE_TIMEOUT: after its bytes were passed to the  *)
(* send callback no queue timer that can still reject it is armed.         *)
(***************************************************************************)
C31_IndependentBudgets ==
    /\ [](\A id \in Ids : items[id].processed => Fate(id) # QueueTimeout)
    /\ [][\A id \in Ids : Dispatched(id) =>
              /\ ~items'[id].queueTimer
              /\ items[id].sendTimeout # 0 => (~items[id].sendTimer /\ items'[id].sendTimer)]_vars
    /\ [][\A id \in Ids : Written(id) => ~(items'[id].queueTimer /\ Undecided(id)')]_vars

\* Lines that are neither device errors, busy lines nor stopir acknowledgements.
PlainLines == {r \in IrResponsePool \cup ResponsePool :
                   ~isErrorResponse(r) /\ ~isBusy(r) /\ ~startsWith(r, <<"stopir">>)}

\* The request a plain line resolves (0 when none).
ResolvedBy(r) == IF resolveIndex(St, r) = 0 THEN 0 ELSE list[resolveIndex(St, r)]

\* The command,connector prefix of a request.
commandConnector(id) == join(split(items[id].message, 2))

\* The queued requests that request R supersedes: enqueued before R and of its
\* command and connector.
SupersededBy(R) ==
    {id \in Ids : /\ InList(id)
                  /\ id < R
                  /\ startsWith(items[id].message, commandConnector(R))
                  /\ connector(items[id].message) = connector(items[R].message)}

(***************************************************************************)
(* C32: when a plain response resolved request R, the queue afterwards is  *)
(* the queue before without R and without the requests that were enqueued  *)
(* before R with R's command and connector; no other request is removed    *)
(* and no request other than R is changed.                                 *)
(***************************************************************************)
C32_OlderPurged ==
    \A r \in PlainLines, elapsed \in ElapsedPool :
        (Drained /\ ResolvedBy(r) # 0) =>
            LET R == ResolvedBy(r)
                s == handleResponse(St, r, elapsed)
            IN  /\ \A id \in Ids :
                       (\E i \in 1..Len(s.list) : s.list[i] = id) <=>
                           (InList(id) /\ id # R /\ id \notin SupersededBy(R))
                /\ \A id \in Ids \ {R} : s.items[id] = items[id]

\* The fields of a request message, and whether it is a sendir request.
fields(id) == split(trim(items[id].message), 3)
IsSendIr(id) == fields(id)[1] = <<"sendir">>

\* The positions in the queue of the sendir requests on the connector of a busy line whose
\* id is not the id of the line.
OtherIds(b) ==
    {i \in 1..Len(list) :
         /\ IsSendIr(list[i])
         /\ Len(fields(list[i])) = 3
         /\ fields(list[i])[2] = splitAll(b)[2]
         /\ fields(list[i])[3] # splitAll(b)[3]}

\* The positions in the queue of the sendir requests.
SendIrs == {i \in 1..Len(list) : IsSendIr(list[i])}

Least(S) == CHOOSE i \in S : \A j \in S : i <= j

BusyLines == {BusyIr1, BusyIr2, <<"busyir", ",", "1:1", ",", "1">>, BusyBare, <<"busyir">>}

(***************************************************************************)
(* C33: for a busy line with connector and id, getBusyIrRequest returns    *)
(* the first queued sendir request on that connector whose id differs from *)
(* the id of the line (12 differs from 1); for a busy line without them it *)
(* returns the second queued sendir request, and none when fewer than two  *)
(* are queued; the request returned stays in the queue.                    *)
(***************************************************************************)
C33_BusyRequest ==
    \A b \in BusyLines, elapsed \in ElapsedPool :
        /\ getBusyIrRequest(St, b) =
               IF Len(splitAll(b)) = 3
               THEN IF OtherIds(b) = {} THEN 0 ELSE list[Least(OtherIds(b))]
               ELSE IF Cardinality(SendIrs) < 2 THEN 0
                    ELSE list[Least(SendIrs \ {Least(SendIrs)})]
        /\ handleResponse(St, b, elapsed).list = list

\* The lines of the device that are not error lines.
NormalLines == {r \in ResponsePool \cup VersionLines \cup BusyLines : ~isErrorResponse(r)}

\* No queued request expects the line and the version fallback finds none; no queued
\* request is selected by the busy line.
Unmatched(r) ==
    IF isBusy(r) THEN getBusyIrRequest(St, r) = 0
    ELSE Expecting(r) = {} /\ ~(hasModel(r) /\ firstGetversion(St) # 0)

\* The handler returned false, wrote nothing and left the queue, the items with their
\* timers and promises, and the pending callbacks and timers as they were.
Dropped(s) ==
    /\ s.ret = "false"
    /\ s.wrote = NoWrite
    /\ s.msgId = msgId /\ s.list = list /\ s.active = active /\ s.paused = paused
    /\ s.items = items
    /\ s.ticks = ticks /\ s.jobs = jobs /\ s.retryTimers = retryTimers

SocketErrors ==
    {[class |-> "Error", code |-> "ECONNRESET", syscall |-> TRUE],
     [class |-> "Error", code |-> "EPIPE", syscall |-> FALSE],
     [class |-> "ConnectionError", code |-> "ETIMEDOUT", syscall |-> FALSE],
     [class |-> "Error", code |-> "none", syscall |-> FALSE]}

\* The socket can report an error.
SocketLive == Drained /\ client.socket \in {"connecting", "connected"}

(***************************************************************************)
(* C35: on an error of the socket the queue is paused; with reconnect true *)
(* and the supervisor neither opening nor reopening the error emitted is a *)
(* ConnectionError ECONNLOST with the original as cause and one connect is *)
(* scheduled; otherwise no reconnection timer is scheduled and the error   *)
(* emitted keeps the code of the transport's error.                        *)
(***************************************************************************)
C35_SocketError ==
    SocketLive =>
        \A error \in SocketErrors :
            LET c == onSocketError(client)
                e == emitted(client, error)
            IN  /\ pause(St).paused
                /\ IF options.reconnect /\ client.state \notin {"opening", "reopening"}
                   THEN /\ e.class = "ConnectionError" /\ e.code = "ECONNLOST"
                        /\ e.cause = error
                        /\ c.reconnections = client.reconnections + 1
                        /\ c.handle
                   ELSE /\ c = client
                        /\ e.code = error.code

\* the socket of an opened connection reported an error and the reconnection is scheduled;
\* and an attempt in progress failed with nothing scheduled
C35_Witness ==
    /\ options.reconnect
    /\ client.socket = "closing"
    /\ paused
    /\ \/ client.state = "opened" /\ client.handle /\ client.reconnections = 1
       \/ client.state = "opening" /\ ~client.handle /\ client.reconnections = 0

(***************************************************************************)
(* C36: a request whose send promise has settled is not passed to the send *)
(* callback afterwards, neither by the dispatcher nor by the timer of a    *)
(* busy re-send scheduled before.                                          *)
(***************************************************************************)
C36_NoWriteAfterSettle ==
    [][\A id \in Ids : Written(id) => ~Settled(items[id].promise)]_vars

\* The frames #onSocketData delivers, and the buffer it leaves, when the data events of a
\* sequence arrive one after the other.
RECURSIVE deliver(_, _)
deliver(buf, events) ==
    IF events = <<>> THEN [frames |-> <<>>, response |-> buf]
    ELSE LET o == onSocketData(buf, Head(events))
             rest == deliver(o.response, Tail(events))
         IN  [frames |-> (IF o.delivered THEN <<o.frame>> ELSE <<>>) \o rest.frames,
              response |-> rest.response]

(***************************************************************************)
(* C37: the frames delivered for a stream of bytes do not depend on how    *)
(* the stream is cut into data events: a chunk delivered whole and the     *)
(* same chunk cut in two deliver the same frames and leave the same bytes  *)
(* buffered, and two complete responses in one data event are delivered as *)
(* two frames, as when they arrive in two events.                          *)
(***************************************************************************)
C37_ChunkingIndependent ==
    /\ \A data \in Chunks : \A k \in 1..(Len(data) - 1) :
           deliver(buffer, <<data>>) =
               deliver(buffer, <<SubSeq(data, 1, k), SubSeq(data, k + 1, Len(data))>>)
    /\ deliver(buffer, <<<<"x", "CR", "x", "CR">>>>).frames =
           deliver(buffer, <<<<"x", "CR">>, <<"x", "CR">>>>).frames

\* The deferred step of the connection timer runs: 'connectionTimeout' is published and
\* the socket destroyed with the ETIMEDOUT error.
TimeoutTakesEffect == client.immediate /\ ~client'.immediate

(***************************************************************************)
(* C38: once onopen ran for a connection attempt, the connection timeout   *)
(* of that attempt does not take effect: while the connection is opened    *)
(* the deferred step of the timer neither publishes 'connectionTimeout'    *)
(* nor destroys the socket.                                                *)
(***************************************************************************)
C38_NoTimeoutAfterOpen ==
    [][(Opened /\ client.socket = "connected") => ~TimeoutTakesEffect]_vars

(***************************************************************************)
(* C39: at most one reconnection timer of the client is pending at any     *)
(* time, the one #reconnectionTimer refers to; a step schedules at most    *)
(* one connect, and after close with reconnect false none is pending.      *)
(***************************************************************************)
C39_OneReconnectionTimer ==
    /\ [](client.reconnections <= 1 /\ (client.reconnections = 1 => client.handle))
    /\ [][client'.reconnections <= client.reconnections + 1]_vars
    /\ [][(Closing /\ ~options'.reconnect) => client'.reconnections = 0]_vars

====
